---------------------------- MODULE Spec2Model ----------------------------
(***************************************************************************)
(* State-machine models of the three command-line tools of ACV_Lab_1:      *)
(*   calibrate.py   batch calibration (collect samples, solve, persist)    *)
(*   aruco_pose.py  live pose pipeline (startup, frame loop) and its       *)
(*                  rotation_vector_to_euler function                      *)
(*   capture.py     interactive capture of calibration images              *)
(* Each tool is a sequential script; its model is a program counter plus   *)
(* the script's module-level variables.  Library calls (OpenCV, yaml,      *)
(* glob, the webcam, the keyboard) are the environment: their results are  *)
(* drawn nondeterministically from the outcomes the library can produce.   *)
(* Each tool has its own specification; the variables of the other tools   *)
(* stay at their idle values under it.                                     *)
(***************************************************************************)
EXTENDS Integers, Sequences, FiniteSets, TLC

VARIABLES
    \* ---- calibrate.py ----
    cpc,            \* position in the script
    dirExists,      \* os.path.exists(IMAGE_DIR)
    images,         \* glob result: one entry per .jpg, saying what the image holds
    idx,            \* number of entries of `images` the for loop has consumed
    objpoints,      \* list of 3D grids
    imgpoints,      \* list of refined corner sets (named by the image's position)
    successful,
    failed,
    gray,           \* 0 = None, else position of the last image converted to gray
    solveCalls,     \* arguments of every cv2.calibrateCamera invocation
    solveResult,    \* what calibrateCamera returned: [ret, mtx, dist] or NoResult
    quality,        \* advisory quality line printed for ret
    outFile,        \* calibration.yaml as left by this run
    cdiag,          \* last error diagnostic printed
    cexit,          \* process exit status, Running while the script runs
    \* ---- aruco_pose.py, startup and frame loop ----
    ppc,            \* position in the script
    calibFile,      \* calibration.yaml as found at startup
    camera_matrix,  \* "unset", or the state of the loaded field
    dist_coeffs,
    capOpened,      \* the webcam is open
    framesRead,     \* frames cap.read() has delivered
    nMarkers,       \* len(ids) of the current frame
    mi,             \* markers of the current frame already handled
    drawn,          \* poses drawn on `display` for the current frame
    print_detailed,
    printed,        \* detailed poses printed to the terminal, in order
    requests,       \* frames in whose key poll p was pressed
    stepLog,        \* steps taken since the current frame was read
    pexit,
    \* ---- capture.py ----
    kpc,
    count,
    capFrames,      \* frames cap.read() has delivered
    found,          \* findChessboardCorners result for the current frame
    lastKey,        \* last cv2.waitKey result
    saved,          \* cv2.imwrite calls, in order
    kexit,
    \* ---- rotation_vector_to_euler ----
    epc,
    Rm,             \* R, the matrix cv2.Rodrigues returned
    branch,         \* which branch of the if ran
    euler           \* the returned angles

calibVars == <<cpc, dirExists, images, idx, objpoints, imgpoints, successful,
               failed, gray, solveCalls, solveResult, quality, outFile,
               cdiag, cexit>>

poseVars == <<ppc, calibFile, camera_matrix, dist_coeffs, capOpened,
              framesRead, nMarkers, mi, drawn, print_detailed, printed,
              requests, stepLog, pexit>>

captureVars == <<kpc, count, capFrames, found, lastKey, saved, kexit>>

eulerVars == <<epc, Rm, branch, euler>>

vars == <<calibVars, poseVars, captureVars, eulerVars>>

---------------------------------------------------------------------------
(* Shared vocabulary *)

\* The exit status of a process: none while it runs, else <<status>>.
Running == <<>>
Exited(status) == <<status>>

\* A value computed in floating point: either finite or NaN/Inf.
Finiteness == {"finite", "nonfinite"}

BoundedSeqs(S, n) == UNION {[1..k -> S] : k \in 0..n}

IsPrefix(s, t) == Len(s) <= Len(t) /\ SubSeq(t, 1, Len(s)) = s

\* The variables of a tool that is not the one being run.
CalibIdle ==
    /\ cpc = "idle" /\ dirExists = FALSE /\ images = <<>> /\ idx = 0
    /\ objpoints = <<>> /\ imgpoints = <<>> /\ successful = 0 /\ failed = 0
    /\ gray = 0 /\ solveCalls = <<>> /\ solveResult = <<>> /\ quality = "none"
    /\ outFile = <<>> /\ cdiag = "none" /\ cexit = Running

PoseIdle ==
    /\ ppc = "idle" /\ calibFile = <<>> /\ camera_matrix = "unset"
    /\ dist_coeffs = "unset" /\ capOpened = FALSE /\ framesRead = 0
    /\ nMarkers = 0 /\ mi = 0 /\ drawn = <<>> /\ print_detailed = FALSE
    /\ printed = <<>> /\ requests = {} /\ stepLog = <<>> /\ pexit = Running

CaptureIdle ==
    /\ kpc = "idle" /\ count = 0 /\ capFrames = 0 /\ found = FALSE
    /\ lastKey = -1 /\ saved = <<>> /\ kexit = Running

EulerIdle ==
    /\ epc = "idle" /\ Rm = <<>> /\ branch = "none" /\ euler = <<>>

---------------------------------------------------------------------------
(* calibrate.py *)

\* Largest batch of images explored.
MaxImages == 4

\* What one file of the batch can be: cv2.imread returns None, or the
\* chessboard is not found, or it is found.
ImageKinds == {"unreadable", "nopattern", "pattern"}

\* The minimum number of detected patterns (the literal 3 of the check).
MinSamples == 3

\* Reprojection errors (in hundredths of a pixel) the solver may report; one per
\* class of the quality report, boundaries included.
RetValues == {0, 49, 50, 99, 100, 199, 200, 350}

\* A returned RMS error: finite with a value, or NaN/Inf.
RetOutcomes ==
    [fin : {"finite"}, v : RetValues] \cup {[fin |-> "nonfinite", v |-> 0]}

NoResult == [ret |-> [fin |-> "none", v |-> 0], mtx |-> "none", dist |-> "none"]

\* Outcomes of a calibrateCamera call that returns: every component may be
\* finite or not (OpenCV does not raise on a NaN result).
SolveReturns ==
    [ret : RetOutcomes, mtx : Finiteness, dist : Finiteness]

NoFile == [written |-> FALSE, opened |-> FALSE, data |-> <<>>]

\* The advisory quality line; comparisons with NaN are all false.
QualityOf(ret) ==
    IF ret.fin # "finite" THEN "poor"
    ELSE IF ret.v < 50 THEN "excellent"
    ELSE IF ret.v < 100 THEN "good"
    ELSE IF ret.v < 200 THEN "acceptable"
    ELSE "poor"

\* calib_data as the script builds it from the solver's return values.
CalibData(res) ==
    [camera_matrix |-> res.mtx, dist_coeff |-> res.dist,
     reprojection_error |-> res.ret]

CalibInit ==
    /\ cpc = "start"
    /\ dirExists \in BOOLEAN
    /\ images \in BoundedSeqs(ImageKinds, MaxImages)
    /\ (~dirExists => images = <<>>)
    /\ idx = 0
    /\ objpoints = <<>>
    /\ imgpoints = <<>>
    /\ successful = 0
    /\ failed = 0
    /\ gray = 0
    /\ solveCalls = <<>>
    /\ solveResult = NoResult
    /\ quality = "none"
    /\ outFile = NoFile
    /\ cdiag = "none"
    /\ cexit = Running
    /\ PoseIdle /\ CaptureIdle /\ EulerIdle

\* exit(1) after an error diagnostic; nothing else changes.
CalibFail(msg) ==
    /\ cpc' = "exited"
    /\ cdiag' = msg
    /\ cexit' = Exited(1)
    /\ UNCHANGED <<dirExists, images, idx, objpoints, imgpoints, successful,
                   failed, gray, solveCalls, solveResult, quality, outFile>>
    /\ UNCHANGED <<poseVars, captureVars, eulerVars>>

DirMissing ==
    /\ cpc = "start"
    /\ ~dirExists
    /\ CalibFail("DirNotFound")

NoImages ==
    /\ cpc = "start"
    /\ dirExists
    /\ Len(images) = 0
    /\ CalibFail("NoImages")

StartProcessing ==
    /\ cpc = "start"
    /\ dirExists
    /\ Len(images) # 0
    /\ cpc' = "loop"
    /\ successful' = 0
    /\ failed' = 0
    /\ gray' = 0
    /\ UNCHANGED <<dirExists, images, idx, objpoints, imgpoints, solveCalls,
                   solveResult, quality, outFile, cdiag, cexit>>
    /\ UNCHANGED <<poseVars, captureVars, eulerVars>>

\* One iteration of `for fname in images`, imread returned None.
ImageUnreadable ==
    /\ cpc = "loop"
    /\ idx < Len(images)
    /\ images[idx + 1] = "unreadable"
    /\ failed' = failed + 1
    /\ idx' = idx + 1
    /\ UNCHANGED <<cpc, dirExists, images, objpoints, imgpoints, successful,
                   gray, solveCalls, solveResult, quality, outFile, cdiag,
                   cexit>>
    /\ UNCHANGED <<poseVars, captureVars, eulerVars>>

\* A variant of ImageNotDetected that appends the grid before testing `found`.
ImageNotDetectedAppendsGrid ==
    /\ cpc = "loop"
    /\ idx < Len(images)
    /\ images[idx + 1] = "nopattern"
    /\ gray' = idx + 1
    /\ objpoints' = Append(objpoints, "objp")
    /\ failed' = failed + 1
    /\ idx' = idx + 1
    /\ UNCHANGED <<cpc, dirExists, images, imgpoints, successful,
                   solveCalls, solveResult, quality, outFile, cdiag, cexit>>
    /\ UNCHANGED <<poseVars, captureVars, eulerVars>>

\* One iteration, findChessboardCorners reported not found.
ImageNotDetected ==
    /\ cpc = "loop"
    /\ idx < Len(images)
    /\ images[idx + 1] = "nopattern"
    /\ gray' = idx + 1
    /\ failed' = failed + 1
    /\ idx' = idx + 1
    /\ UNCHANGED <<cpc, dirExists, images, objpoints, imgpoints, successful,
                   solveCalls, solveResult, quality, outFile, cdiag, cexit>>
    /\ UNCHANGED <<poseVars, captureVars, eulerVars>>

\* One iteration, the pattern was found: both lists grow by one.
ImageDetected ==
    /\ cpc = "loop"
    /\ idx < Len(images)
    /\ images[idx + 1] = "pattern"
    /\ gray' = idx + 1
    /\ objpoints' = Append(objpoints, "objp")
    /\ imgpoints' = Append(imgpoints, idx + 1)
    /\ successful' = successful + 1
    /\ idx' = idx + 1
    /\ UNCHANGED <<cpc, dirExists, images, failed, solveCalls, solveResult,
                   quality, outFile, cdiag, cexit>>
    /\ UNCHANGED <<poseVars, captureVars, eulerVars>>

\* A variant of the sample-count check that is off by one.
EnoughSamplesOffByOne == successful >= MinSamples - 1

\* The sample-count check after the loop.
EnoughSamples == successful >= MinSamples

NotEnoughImages ==
    /\ cpc = "loop"
    /\ idx = Len(images)
    /\ ~EnoughSamples
    /\ CalibFail("NotEnoughImages")

SolveCall == [obj |-> objpoints, img |-> imgpoints, size |-> gray]

\* A variant of SolveRaises whose except branch prints and falls through.
SolveRaisesFallsThrough ==
    /\ cpc = "loop"
    /\ idx = Len(images)
    /\ successful >= MinSamples
    /\ solveCalls' = Append(solveCalls, [obj |-> objpoints, img |-> imgpoints,
                                         size |-> gray])
    /\ cpc' = "save"
    /\ cdiag' = "CalibrationFailed"
    /\ UNCHANGED <<dirExists, images, idx, objpoints, imgpoints, successful,
                   failed, gray, solveResult, quality, outFile, cexit>>
    /\ UNCHANGED <<poseVars, captureVars, eulerVars>>

\* calibrateCamera raises cv2.error: the except branch exits with status 1.
SolveRaises ==
    /\ cpc = "loop"
    /\ idx = Len(images)
    /\ EnoughSamples
    /\ solveCalls' = Append(solveCalls, SolveCall)
    /\ cpc' = "exited"
    /\ cdiag' = "CalibrationFailed"
    /\ cexit' = Exited(1)
    /\ UNCHANGED <<dirExists, images, idx, objpoints, imgpoints, successful,
                   failed, gray, solveResult, quality, outFile>>
    /\ UNCHANGED <<poseVars, captureVars, eulerVars>>

\* calibrateCamera returns; the results are reported.
SolveDone ==
    /\ cpc = "loop"
    /\ idx = Len(images)
    /\ EnoughSamples
    /\ solveCalls' = Append(solveCalls, SolveCall)
    /\ \E res \in SolveReturns :
          /\ solveResult' = res
          /\ quality' = QualityOf(res.ret)
    /\ cpc' = "save"
    /\ UNCHANGED <<dirExists, images, idx, objpoints, imgpoints, successful,
                   failed, gray, outFile, cdiag, cexit>>
    /\ UNCHANGED <<poseVars, captureVars, eulerVars>>

\* open(OUTPUT_FILE, "w") and yaml.dump(calib_data, f), then the script ends.
SaveCalibration ==
    /\ cpc = "save"
    /\ outFile' = [written |-> TRUE, opened |-> TRUE,
                   data |-> CalibData(solveResult)]
    /\ cpc' = "exited"
    /\ cexit' = Exited(0)
    /\ UNCHANGED <<dirExists, images, idx, objpoints, imgpoints, successful,
                   failed, gray, solveCalls, solveResult, quality, cdiag>>
    /\ UNCHANGED <<poseVars, captureVars, eulerVars>>

CalibNext ==
    \/ DirMissing
    \/ NoImages
    \/ StartProcessing
    \/ ImageUnreadable
    \/ ImageNotDetected
    \/ ImageDetected
    \/ NotEnoughImages
    \/ SolveRaises
    \/ SolveDone
    \/ SaveCalibration

CalibSpec == CalibInit /\ [][CalibNext]_vars


---------------------------------------------------------------------------
(* Properties of calibrate.py *)

\* Positions (in `images`) of the images among the first n that hold a pattern.
AcceptedUpTo(n) ==
    SelectSeq([i \in 1..n |-> i], LAMBDA i : images[i] = "pattern")

CollectionOver == cpc \in {"save", "exited"} /\ dirExists /\ Len(images) > 0

\* C2: once collection is over, fewer than 3 detected patterns means the run has
\* exited with status 1 and the NotEnoughImages diagnostic without any call of
\* the solver; 3 or more (exactly 3 included) means the solver was called once,
\* with every accepted sample, in order, and never the NotEnoughImages exit.
C2_InsufficientSamplesIffFewerThanThree ==
    /\ (cpc = "loop" => solveCalls = <<>>)
    /\ (cexit = Exited(1) /\ cdiag # "CalibrationFailed" => solveCalls = <<>>)
    /\ CollectionOver =>
          LET accepted == AcceptedUpTo(Len(images)) IN
          /\ successful = Len(accepted)
          /\ Len(accepted) < 3 =>
                /\ cexit = Exited(1)
                /\ cdiag = "NotEnoughImages"
                /\ solveCalls = <<>>
          /\ Len(accepted) >= 3 =>
                /\ cdiag # "NotEnoughImages"
                /\ Len(solveCalls) = 1
                /\ solveCalls[1].img = accepted
                /\ Len(solveCalls[1].obj) = Len(accepted)

\* A batch with exactly 3 detected patterns and a rejected image, solve invoked.
C2_Witness ==
    /\ cpc = "save"
    /\ successful = 3
    /\ failed = 1
    /\ Len(solveCalls) = 1

\* C3: every run that ends in failure (missing directory, no images, fewer than
\* 3 samples, solver raised) has never opened calibration.yaml for writing; and
\* a written calibration.yaml holds exactly the three fields camera_matrix,
\* dist_coeff and reprojection_error, all returned by the one completed solve.
C3_NoPartialArtifact ==
    /\ (cexit = Exited(1) <=>
          cdiag \in {"DirNotFound", "NoImages", "NotEnoughImages",
                     "CalibrationFailed"})
    /\ (cexit = Exited(1) => ~outFile.opened /\ ~outFile.written)
    /\ (cexit = Running => ~outFile.opened)
    /\ (outFile.opened =>
          /\ outFile.written
          /\ cexit = Exited(0)
          /\ Len(solveCalls) = 1
          /\ solveResult \in SolveReturns
          /\ DOMAIN outFile.data =
                {"camera_matrix", "dist_coeff", "reprojection_error"}
          /\ outFile.data.camera_matrix = solveResult.mtx
          /\ outFile.data.dist_coeff = solveResult.dist
          /\ outFile.data.reprojection_error = solveResult.ret)

\* A run whose solve raised: failure exit, file untouched.
C3_Witness ==
    /\ cexit = Exited(1)
    /\ cdiag = "CalibrationFailed"
    /\ Len(solveCalls) = 1
    /\ ~outFile.opened

NonFiniteResult ==
    /\ solveResult \in SolveReturns
    /\ \/ solveResult.mtx = "nonfinite"
       \/ solveResult.dist = "nonfinite"
       \/ solveResult.ret.fin = "nonfinite"

\* C4: when the solver returned a camera matrix, distortion vector or
\* reprojection error that is not finite, the run ends with a failure status
\* and calibration.yaml is not written.
C4_NonFiniteSolveIsFatal ==
    NonFiniteResult =>
        /\ ~outFile.written
        /\ (cpc = "exited" => cexit = Exited(1))

\* The counters and lists between two iterations of the image loop.
C7_CollectionState ==
    cpc # "start" =>
        /\ idx <= Len(images)
        /\ successful + failed = idx
        /\ Len(objpoints) = successful
        /\ Len(imgpoints) = successful
        /\ imgpoints = AcceptedUpTo(idx)

\* What one step may do to the lists and counters.
C7_CollectionStep ==
    /\ IsPrefix(objpoints, objpoints')
    /\ IsPrefix(imgpoints, imgpoints')
    /\ (failed' = failed + 1 =>
          /\ objpoints' = objpoints
          /\ imgpoints' = imgpoints
          /\ successful' = successful
          /\ idx' = idx + 1
          /\ cpc' = "loop")

\* C7: after any prefix of the image list, successful + failed is the number of
\* images processed, both sample lists have `successful` entries, and they hold
\* exactly the detected images of that prefix in order; every step only appends
\* to the lists, and a step that counts a failure stores nothing and leaves the
\* loop running on the next image.
C7_PerImageFailuresSkipped ==
    [](C7_CollectionState) /\ [][C7_CollectionStep]_vars

\* A rejected image in the middle of a batch, followed by an accepted one.
C7_Witness ==
    /\ cpc = "loop"
    /\ failed >= 1
    /\ successful >= 2
    /\ imgpoints = <<1, 3>>

---------------------------------------------------------------------------
(* aruco_pose.py: startup and frame loop *)

\* Frames the webcam delivers before the stream ends.
MaxFrames == 3

\* Markers detected in one frame.
MaxMarkers == 2

\* What a field of calibration.yaml can be.
FieldStates == {"ok", "absent", "malformed"}

\* calibration.yaml as found at startup: missing; not parsable as YAML; a
\* document that is not a mapping (empty, a list, a scalar); or a mapping whose
\* three fields are each present and well formed, absent, or malformed.
CalibrationFiles ==
    {[kind |-> k, camera_matrix |-> "absent", dist_coeff |-> "absent",
      reprojection_error |-> "absent"] : k \in {"missing", "unparsable", "notmapping"}}
    \cup
    [kind : {"mapping"}, camera_matrix : FieldStates, dist_coeff : FieldStates,
     reprojection_error : FieldStates]

\* Key codes; cv2.waitKey returns -1 when no key was pressed.
KeyEsc == 27
KeyLowerQ == 113
KeyLowerP == 112
\* Raw results of cv2.waitKey(1): -1 is "no key pressed", 81 is 'Q', a key no
\* branch tests.
RawKeys == {-1, KeyEsc, KeyLowerQ, KeyLowerP, 81}

\* key = cv2.waitKey(1) & 0xFF
MaskKey(raw) == raw % 256

\* What cv2.solvePnP can return for one marker: success False, or success True
\* with the translation in front of the camera (z > 0) or not (z <= 0).
PnPReturns == {"failed", "front", "behind"}

PoseInit ==
    /\ ppc = "start"
    /\ calibFile \in CalibrationFiles
    /\ camera_matrix = "unset"
    /\ dist_coeffs = "unset"
    /\ capOpened = FALSE
    /\ framesRead = 0
    /\ nMarkers = 0
    /\ mi = 0
    /\ drawn = <<>>
    /\ print_detailed = FALSE
    /\ printed = <<>>
    /\ requests = {}
    /\ stepLog = <<>>
    /\ pexit = Running
    /\ CalibIdle /\ CaptureIdle /\ EulerIdle

\* Line 31: the file does not exist, exit(1).
CalibrationMissing ==
    /\ ppc = "start"
    /\ calibFile.kind = "missing"
    /\ ppc' = "exited"
    /\ pexit' = Exited(1)
    /\ UNCHANGED <<calibFile, camera_matrix, dist_coeffs, capOpened, framesRead,
                   nMarkers, mi, drawn, print_detailed, printed, requests,
                   stepLog>>
    /\ UNCHANGED <<calibVars, captureVars, eulerVars>>

\* Lines 35-39 raise (yaml.YAMLError, TypeError on a non-mapping, KeyError on an
\* absent camera_matrix or dist_coeff, ValueError from np.array on a ragged
\* list): the interpreter prints a traceback and ends with status 1.
LoadRaises ==
    /\ ppc = "start"
    /\ calibFile.kind # "missing"
    /\ \/ calibFile.kind \in {"unparsable", "notmapping"}
       \/ calibFile.camera_matrix = "absent"
       \/ calibFile.dist_coeff = "absent"
       \/ calibFile.camera_matrix = "malformed"
       \/ calibFile.dist_coeff = "malformed"
    /\ ppc' = "crashed"
    /\ pexit' = Exited(1)
    /\ UNCHANGED <<calibFile, camera_matrix, dist_coeffs, capOpened, framesRead,
                   nMarkers, mi, drawn, print_detailed, printed, requests,
                   stepLog>>
    /\ UNCHANGED <<calibVars, captureVars, eulerVars>>

\* Lines 35-39 complete: both subscripted fields are present; np.array accepts
\* whatever value they hold.  reprojection_error is never read.
LoadCalibration ==
    /\ ppc = "start"
    /\ calibFile.kind = "mapping"
    /\ calibFile.camera_matrix # "absent"
    /\ calibFile.dist_coeff # "absent"
    /\ camera_matrix' = calibFile.camera_matrix
    /\ dist_coeffs' = calibFile.dist_coeff
    /\ ppc' = "webcam"
    /\ UNCHANGED <<calibFile, capOpened, framesRead, nMarkers, mi, drawn,
                   print_detailed, printed, requests, stepLog, pexit>>
    /\ UNCHANGED <<calibVars, captureVars, eulerVars>>

\* Lines 93-96: the webcam cannot be opened, exit(1).
WebcamFails ==
    /\ ppc = "webcam"
    /\ ppc' = "exited"
    /\ pexit' = Exited(1)
    /\ UNCHANGED <<calibFile, camera_matrix, dist_coeffs, capOpened, framesRead,
                   nMarkers, mi, drawn, print_detailed, printed, requests,
                   stepLog>>
    /\ UNCHANGED <<calibVars, captureVars, eulerVars>>

\* Lines 93-98: the webcam is open and the request flag starts cleared.
WebcamOpens ==
    /\ ppc = "webcam"
    /\ capOpened' = TRUE
    /\ print_detailed' = FALSE
    /\ ppc' = "read"
    /\ UNCHANGED <<calibFile, camera_matrix, dist_coeffs, framesRead, nMarkers,
                   mi, drawn, printed, requests, stepLog, pexit>>
    /\ UNCHANGED <<calibVars, captureVars, eulerVars>>

\* Lines 102-104: cap.read() fails, break.
ReadFails ==
    /\ ppc = "read"
    /\ ppc' = "cleanup"
    /\ UNCHANGED <<calibFile, camera_matrix, dist_coeffs, capOpened, framesRead,
                   nMarkers, mi, drawn, print_detailed, printed, requests,
                   stepLog, pexit>>
    /\ UNCHANGED <<calibVars, captureVars, eulerVars>>

\* Line 102: a frame is read.
ReadFrame ==
    /\ ppc = "read"
    /\ framesRead < MaxFrames
    /\ framesRead' = framesRead + 1
    /\ nMarkers' = 0
    /\ mi' = 0
    /\ drawn' = <<>>
    /\ stepLog' = <<"read">>
    /\ ppc' = "detect"
    /\ UNCHANGED <<calibFile, camera_matrix, dist_coeffs, capOpened,
                   print_detailed, printed, requests, pexit>>
    /\ UNCHANGED <<calibVars, captureVars, eulerVars>>

\* Lines 107-115 and 156-159: detectMarkers, display = frame.copy(), then the
\* marker loop when ids is non-empty, else the "No ArUco marker" text.
DetectMarkers ==
    /\ ppc = "detect"
    /\ \E n \in 0..MaxMarkers :
          /\ nMarkers' = n
          /\ ppc' = IF n > 0 THEN "marker" ELSE "show"
    /\ mi' = 0
    /\ stepLog' = Append(stepLog, "detect")
    /\ UNCHANGED <<calibFile, camera_matrix, dist_coeffs, capOpened, framesRead,
                   drawn, print_detailed, printed, requests, pexit>>
    /\ UNCHANGED <<calibVars, captureVars, eulerVars>>

IntrinsicsUsable == camera_matrix = "ok" /\ dist_coeffs = "ok"

AfterMarker == IF mi + 1 < nMarkers THEN "marker" ELSE "show"

\* Line 120 raises cv2.error: the loaded intrinsics are not arrays solvePnP
\* accepts.  Nothing catches it; the process ends inside the frame.  (With such
\* intrinsics solvePnP may also return, e.g. for an empty distortion list, so
\* PoseFailed and PoseSolved stay enabled.)
PoseRaises ==
    /\ ppc = "marker"
    /\ ~IntrinsicsUsable
    /\ ppc' = "crashed"
    /\ pexit' = Exited(1)
    /\ UNCHANGED <<calibFile, camera_matrix, dist_coeffs, capOpened, framesRead,
                   nMarkers, mi, drawn, print_detailed, printed, requests,
                   stepLog>>
    /\ UNCHANGED <<calibVars, captureVars, eulerVars>>

\* Lines 120-124: solvePnP reports no success; the marker gets no overlay.
PoseFailed ==
    /\ ppc = "marker"
    /\ mi' = mi + 1
    /\ ppc' = AfterMarker
    /\ stepLog' = Append(stepLog, "pose")
    /\ UNCHANGED <<calibFile, camera_matrix, dist_coeffs, capOpened, framesRead,
                   nMarkers, drawn, print_detailed, printed, requests, pexit>>
    /\ UNCHANGED <<calibVars, captureVars, eulerVars>>

\* A variant of PoseSolved that prints without clearing the request.
PoseSolvedKeepsRequest ==
    /\ ppc = "marker"
    /\ \E z \in {"front", "behind"} :
          LET pose == [frame |-> framesRead, marker |-> mi + 1, z |-> z] IN
          /\ drawn' = Append(drawn, pose)
          /\ printed' = IF print_detailed THEN Append(printed, pose) ELSE printed
    /\ mi' = mi + 1
    /\ ppc' = (IF mi + 1 < nMarkers THEN "marker" ELSE "show")
    /\ stepLog' = Append(stepLog, "pose")
    /\ UNCHANGED <<calibFile, camera_matrix, dist_coeffs, capOpened, framesRead,
                   nMarkers, print_detailed, requests, pexit>>
    /\ UNCHANGED <<calibVars, captureVars, eulerVars>>

\* Lines 120-155: solvePnP reports success.  The axes and the three text
\* lines are drawn for whatever pose was returned; when print_detailed is
\* set the pose is printed and the flag cleared.
PoseSolved ==
    /\ ppc = "marker"
    /\ \E z \in PnPReturns \ {"failed"} :
          LET pose == [frame |-> framesRead, marker |-> mi + 1, z |-> z] IN
          /\ drawn' = Append(drawn, pose)
          /\ printed' = IF print_detailed THEN Append(printed, pose) ELSE printed
    /\ print_detailed' = FALSE
    /\ mi' = mi + 1
    /\ ppc' = AfterMarker
    /\ stepLog' = Append(stepLog, "pose")
    /\ UNCHANGED <<calibFile, camera_matrix, dist_coeffs, capOpened, framesRead,
                   nMarkers, requests, pexit>>
    /\ UNCHANGED <<calibVars, captureVars, eulerVars>>

\* Lines 161-169: legend and cv2.imshow.
ShowFrame ==
    /\ ppc = "show"
    /\ stepLog' = Append(stepLog, "show")
    /\ ppc' = "key"
    /\ UNCHANGED <<calibFile, camera_matrix, dist_coeffs, capOpened, framesRead,
                   nMarkers, mi, drawn, print_detailed, printed, requests,
                   pexit>>
    /\ UNCHANGED <<calibVars, captureVars, eulerVars>>

\* Lines 172-176: one key poll; ESC or q breaks, p sets the flag.
PollKey ==
    /\ ppc = "key"
    /\ \E raw \in RawKeys :
          LET key == MaskKey(raw) IN
          /\ ppc' = IF key = KeyEsc \/ key = KeyLowerQ THEN "cleanup" ELSE "read"
          /\ print_detailed' =
                IF key # KeyEsc /\ key # KeyLowerQ /\ key = KeyLowerP
                THEN TRUE ELSE print_detailed
          /\ requests' =
                IF key # KeyEsc /\ key # KeyLowerQ /\ key = KeyLowerP
                THEN requests \cup {framesRead} ELSE requests
    /\ stepLog' = Append(stepLog, "key")
    /\ UNCHANGED <<calibFile, camera_matrix, dist_coeffs, capOpened, framesRead,
                   nMarkers, mi, drawn, printed, pexit>>
    /\ UNCHANGED <<calibVars, captureVars, eulerVars>>

\* Lines 179-181: release, destroy windows, end of script.
Cleanup ==
    /\ ppc = "cleanup"
    /\ capOpened' = FALSE
    /\ ppc' = "done"
    /\ pexit' = Exited(0)
    /\ UNCHANGED <<calibFile, camera_matrix, dist_coeffs, framesRead, nMarkers,
                   mi, drawn, print_detailed, printed, requests, stepLog>>
    /\ UNCHANGED <<calibVars, captureVars, eulerVars>>

PoseNext ==
    \/ CalibrationMissing
    \/ LoadRaises
    \/ LoadCalibration
    \/ WebcamFails
    \/ WebcamOpens
    \/ ReadFails
    \/ ReadFrame
    \/ DetectMarkers
    \/ PoseRaises
    \/ PoseFailed
    \/ PoseSolved
    \/ ShowFrame
    \/ PollKey
    \/ Cleanup

PoseSpec == PoseInit /\ [][PoseNext]_vars

---------------------------------------------------------------------------
(* Properties of the pose pipeline *)

\* A print request (key p) made since the last detailed print.  The key is
\* polled after the frame's markers, so a request made in the frame of the
\* last print is later than that print.
Pending ==
    \E r \in requests : printed = <<>> \/ r >= printed[Len(printed)].frame

\* What one step may do to the terminal output and the request flag.
C1_Step ==
    /\ (printed' # printed) <=> (Pending /\ Len(drawn') = Len(drawn) + 1)
    /\ (printed' # printed =>
          /\ printed' = Append(printed, drawn'[Len(drawn')])
          /\ drawn'[Len(drawn')].frame = framesRead
          /\ \A r \in requests : r < framesRead
          /\ ~Pending')
    /\ (print_detailed /\ Len(drawn') # Len(drawn) + 1 => print_detailed')

\* C1: a detailed print happens exactly at a successful solvePnP while a
\* request is pending; it prints that marker's pose and consumes every request
\* made so far, so nothing is pending after it; steps without a successful
\* solve (no marker, failed solves) print nothing and leave the request pending.
C1_PrintRequestOneShot ==
    [](print_detailed <=> Pending) /\ [][C1_Step]_vars

\* Two requests (frames 1 and 2, neither with a successful solve), then frame 3
\* whose first marker fails and whose second is printed, once.
C1_Witness ==
    /\ requests = {1, 2}
    /\ Len(printed) = 1
    /\ printed[1].frame = 3
    /\ printed[1].marker = 2
    /\ ~print_detailed
    /\ ppc = "key"

\* C5: no pose drawn on the displayed frame or printed has z <= 0.
C5_NoPoseBehindCamera ==
    /\ \A i \in DOMAIN drawn : drawn[i].z = "front"
    /\ \A i \in DOMAIN printed : printed[i].z = "front"

CalibrationComplete ==
    /\ calibFile.kind = "mapping"
    /\ calibFile.camera_matrix = "ok"
    /\ calibFile.dist_coeff = "ok"
    /\ calibFile.reprojection_error = "ok"

\* C6: with a missing calibration file or an absent or malformed field the
\* process ends before the webcam is opened and before any frame is read.
C6_IncompleteCalibrationIsFatal ==
    ~CalibrationComplete =>
        /\ ~capOpened
        /\ framesRead = 0
        /\ ppc \in {"start", "exited", "crashed"}

\* The steps of one complete iteration over a frame with n markers.
FrameSteps(n) ==
    <<"read", "detect">> \o [i \in 1..n |-> "pose"] \o <<"show", "key">>

\* C10: the steps of an iteration occur in the order read, detect, one pose
\* computation per detected marker, show, one key poll; and whenever the loop
\* has ended or is about to read the next frame, the last frame read went
\* through all of them.
C10_FrameSynchronous ==
    /\ IsPrefix(stepLog, FrameSteps(nMarkers))
    /\ (framesRead > 0 /\ ppc \in {"read", "cleanup", "done", "exited", "crashed"}
          => stepLog = FrameSteps(nMarkers))

---------------------------------------------------------------------------
(* capture.py *)

NUM_IMAGES == 10

KeySpace == 32

\* Frames the webcam delivers before the stream ends.
MaxCaptureFrames == 11

\* cv2.waitKey(1) results (not masked in this script).
\* -1 is "no key pressed".
CaptureKeys == {-1, KeySpace, KeyEsc, KeyLowerQ}

CaptureInit ==
    /\ kpc = "open"
    /\ count = 0
    /\ capFrames = 0
    /\ found = FALSE
    /\ lastKey = -1
    /\ saved = <<>>
    /\ kexit = Running
    /\ CalibIdle /\ PoseIdle /\ EulerIdle

\* Lines 35-40: the camera cannot be opened, exit(1).
CameraFails ==
    /\ kpc = "open"
    /\ kpc' = "exited"
    /\ kexit' = Exited(1)
    /\ UNCHANGED <<count, capFrames, found, lastKey, saved>>
    /\ UNCHANGED <<calibVars, poseVars, eulerVars>>

\* Lines 35-42: the camera is open, count = 0.
CameraOpens ==
    /\ kpc = "open"
    /\ count' = 0
    /\ kpc' = "read"
    /\ UNCHANGED <<capFrames, found, lastKey, saved, kexit>>
    /\ UNCHANGED <<calibVars, poseVars, eulerVars>>

\* Lines 45-47: cap.read() fails, break.
CaptureReadFails ==
    /\ kpc = "read"
    /\ kpc' = "cleanup"
    /\ UNCHANGED <<count, capFrames, found, lastKey, saved, kexit>>
    /\ UNCHANGED <<calibVars, poseVars, eulerVars>>

\* Lines 45-65: a frame is read, the chessboard is searched and the frame shown.
CaptureReadFrame ==
    /\ kpc = "read"
    /\ capFrames < MaxCaptureFrames
    /\ capFrames' = capFrames + 1
    /\ found' \in BOOLEAN
    /\ kpc' = "key"
    /\ UNCHANGED <<count, lastKey, saved, kexit>>
    /\ UNCHANGED <<calibVars, poseVars, eulerVars>>

\* A variant of the guard that ignores the detection result.
SaveOnAnySpace(key) == key = KeySpace

\* The guard of the save branch (line 69).
SaveAccepted(key) == key = KeySpace /\ found

\* Lines 66-82 for one key: save and count when SaveAccepted, leaving the loop
\* at NUM_IMAGES; else ESC leaves the loop; any other key continues.
HandleKey(key) ==
    IF SaveAccepted(key)
    THEN /\ saved' = Append(saved, [name |-> count, frame |-> capFrames,
                                    pattern |-> found])
         /\ count' = count + 1
         /\ kpc' = IF count + 1 >= NUM_IMAGES THEN "cleanup" ELSE "read"
    ELSE /\ kpc' = IF key = KeyEsc THEN "cleanup" ELSE "read"
         /\ UNCHANGED <<count, saved>>

CaptureKey ==
    /\ kpc = "key"
    /\ \E key \in CaptureKeys : lastKey' = key /\ HandleKey(key)
    /\ UNCHANGED <<capFrames, found, kexit>>
    /\ UNCHANGED <<calibVars, poseVars, eulerVars>>

\* Lines 84-86.
CaptureCleanup ==
    /\ kpc = "cleanup"
    /\ kpc' = "done"
    /\ kexit' = Exited(0)
    /\ UNCHANGED <<count, capFrames, found, lastKey, saved>>
    /\ UNCHANGED <<calibVars, poseVars, eulerVars>>

CaptureNext ==
    \/ CameraFails
    \/ CameraOpens
    \/ CaptureReadFails
    \/ CaptureReadFrame
    \/ CaptureKey
    \/ CaptureCleanup

CaptureSpec == CaptureInit /\ [][CaptureNext]_vars

---------------------------------------------------------------------------
(* Properties of capture.py *)

\* The counter and the saved files between two steps.
C8_CaptureState ==
    /\ count = Len(saved)
    /\ count <= NUM_IMAGES
    /\ \A i \in DOMAIN saved : saved[i].pattern /\ saved[i].name = i - 1
    /\ \A i, j \in DOMAIN saved : i < j => saved[i].frame < saved[j].frame
    /\ (count = NUM_IMAGES => kpc \in {"cleanup", "done"})

\* What one step may do to the counter and the saved files.
C8_CaptureStep ==
    /\ (saved' # saved \/ count' # count) =>
          /\ kpc = "key"
          /\ lastKey' = KeySpace
          /\ found
          /\ saved' = Append(saved, [name |-> count, frame |-> capFrames,
                                     pattern |-> TRUE])
          /\ count' = count + 1
    /\ (kpc = "key" /\ ~found) => (saved' = saved /\ count' = count)
    /\ (kpc = "key" /\ found /\ lastKey' = KeySpace) => count' = count + 1
    /\ (count' = NUM_IMAGES /\ count # NUM_IMAGES) => kpc' = "cleanup"

\* C8: an image is written and count incremented only in an iteration where
\* SPACE was pressed on a frame with a detected pattern; count is the number of
\* images saved, the files are img_00 .. img_(count-1), count never exceeds
\* NUM_IMAGES and the loop is left in the iteration where it reaches NUM_IMAGES.
C8_CaptureGatedByDetection ==
    [](C8_CaptureState) /\ [][C8_CaptureStep]_vars

\* The tenth image has just been saved, after at least one frame was passed over.
C8_Witness ==
    /\ count = NUM_IMAGES
    /\ kpc = "cleanup"
    /\ capFrames > NUM_IMAGES

---------------------------------------------------------------------------
(* aruco_pose.py: rotation_vector_to_euler *)
(* Numbers are fixed point: one unit is 1e-7, so 1.0 is ONE units and the   *)
(* threshold 1e-6 is EPS units.  Angles are milliradians inside the         *)
(* function and hundredths of a degree in its result.  A computed value is  *)
(* a record [fin, v]: finite with value v, or NaN/Inf.                      *)

ONE == 10 * 1000 * 1000

\* The literal 1e-6 of `singular = sy < 1e-6`, in units.
EPS == 10

\* Largest deviation (in units) of R00 and R10 from an axis-aligned rotation.
MaxDelta == 12

Fin(v) == [fin |-> TRUE, v |-> v]
NaN == [fin |-> FALSE, v |-> 0]

Abs(x) == IF x < 0 THEN -x ELSE x

RECURSIVE IsqrtBetween(_, _, _)
\* The largest r in lo..hi with r * r <= n, by bisection.
IsqrtBetween(n, lo, hi) ==
    IF lo >= hi THEN lo
    ELSE LET mid == (lo + hi + 1) \div 2 IN
         IF mid * mid <= n THEN IsqrtBetween(n, mid, hi)
         ELSE IsqrtBetween(n, lo, mid - 1)

Isqrt(n) == IsqrtBetween(n, 0, 46340)

\* np.sqrt(a ** 2 + b ** 2): exact (rounded down) for small operands, and with
\* a relative rounding error of 1e-4 for large ones, as a format with a
\* bounded mantissa gives.
SqrtSumSquares(a, b) ==
    IF Abs(a) <= 30000 /\ Abs(b) <= 30000
    THEN Isqrt(a * a + b * b)
    ELSE 1000 * Isqrt((Abs(a) \div 1000) * (Abs(a) \div 1000)
                      + (Abs(b) \div 1000) * (Abs(b) \div 1000))

\* a / b in thousandths, for 0 <= a <= b and b > 0.
Ratio(a, b) ==
    LET q == IF b >= 1000000 THEN a \div (b \div 1000) ELSE (a * 1000) \div b
    IN  IF q > 1000 THEN 1000 ELSE q

\* arctan of t thousandths, 0 <= t <= 1000, in milliradians:
\* (pi/4) t + 0.273 t (1 - t).
AtanUnit(t) ==
    (7854 * t) \div 10000 + (273 * ((t * (1000 - t)) \div 1000)) \div 1000

HalfPi == 1571
Pi == 3142

\* A variant of Atan2 computed as arctan(y / x): the quotient is undefined
\* (NaN or Inf) when x is 0.
AtanOfQuotient(y, x) ==
    IF x = 0 THEN NaN
    ELSE LET t == IF Abs(y) <= Abs(x) THEN AtanUnit(Ratio(Abs(y), Abs(x)))
                  ELSE HalfPi - AtanUnit(Ratio(Abs(x), Abs(y)))
         IN  Fin(IF (y < 0) = (x < 0) THEN t ELSE -t)

\* np.arctan2(y, x) in milliradians: total, arctan2(0, 0) = 0.
Atan2(y, x) ==
    LET first == IF x = 0 /\ y = 0 THEN 0
                 ELSE IF Abs(y) <= Abs(x) THEN AtanUnit(Ratio(Abs(y), Abs(x)))
                 ELSE HalfPi - AtanUnit(Ratio(Abs(x), Abs(y)))
        half == IF x < 0 THEN Pi - first ELSE first
    IN  Fin(IF y < 0 THEN -half ELSE half)

\* np.degrees, to hundredths of a degree.
Degrees(a) ==
    IF ~a.fin THEN NaN
    ELSE IF a.v < 0 THEN Fin(-((-a.v * 18000) \div Pi))
    ELSE Fin((a.v * 18000) \div Pi)

\* A variant of the singularity test with the boundary included.
SingularInclusive(sy) == sy <= EPS

\* singular = sy < 1e-6
Singular(sy) == sy < EPS

\* Entry R[i, j] of the source (0-based) in the 1-based tuple of rows.
At(M, i, j) == M[i + 1][j + 1]

Sy(M) == SqrtSumSquares(At(M, 0, 0), At(M, 1, 0))

NoAngles == [roll |-> Fin(0), pitch |-> Fin(0), yaw |-> Fin(0)]

\* The permutations of <<1, 2, 3>> with their signs.
Perms ==
    {<<<<1, 2, 3>>, 1>>, <<<<2, 3, 1>>, 1>>, <<<<3, 1, 2>>, 1>>,
     <<<<1, 3, 2>>, -1>>, <<<<3, 2, 1>>, -1>>, <<<<2, 1, 3>>, -1>>}

Signs == [1..3 -> {-1, 1}]

\* The row with v in column c.
UnitRow(c, v) ==
    <<IF c = 1 THEN v ELSE 0, IF c = 2 THEN v ELSE 0, IF c = 3 THEN v ELSE 0>>

\* The matrix with s[i] in row i, column p[i].
SignedPermutation(p, s) ==
    <<UnitRow(p[1], s[1] * ONE), UnitRow(p[2], s[2] * ONE),
      UnitRow(p[3], s[3] * ONE)>>

\* The 24 axis-aligned rotation matrices: signed permutation matrices of
\* determinant +1.
AxisRotations ==
    {SignedPermutation(x[1][1], x[2]) :
        x \in {y \in Perms \X Signs : y[1][2] * y[2][1] * y[2][2] * y[2][3] = 1}}

Cos45 == 7071068

\* Rotations by 45 degrees about z, y and x.
DiagonalRotations ==
    {<<<<Cos45, -Cos45, 0>>, <<Cos45, Cos45, 0>>, <<0, 0, ONE>>>>,
     <<<<Cos45, 0, Cos45>>, <<0, ONE, 0>>, <<-Cos45, 0, Cos45>>>>,
     <<<<ONE, 0, 0>>, <<0, Cos45, -Cos45>>, <<0, Cos45, Cos45>>>>}

\* M with d0 added to R00 and R22 and d1 to R10 and R21: the rotations a few
\* 1e-7 away from M (near gimbal lock these four entries are the small ones).
Tilt(M, d0, d1) ==
    <<<<M[1][1] + d0, M[1][2], M[1][3]>>,
      <<M[2][1] + d1, M[2][2], M[2][3]>>,
      <<M[3][1], M[3][2] + d1, M[3][3] + d0>>>>

\* The matrices that are tilted.
BaseRotations == AxisRotations \cup DiagonalRotations

EulerInit ==
    /\ epc = "input"
    /\ \E M \in BaseRotations : \E d0 \in 0..MaxDelta : \E d1 \in 0..MaxDelta :
          Rm = Tilt(M, d0, d1)
    /\ branch = "none"
    /\ euler = NoAngles
    /\ CalibIdle /\ PoseIdle /\ CaptureIdle

\* Lines 65-68, the `if not singular` branch, and line 74.
EulerRegular ==
    /\ epc = "input"
    /\ ~Singular(Sy(Rm))
    /\ euler' = [roll  |-> Degrees(Atan2(At(Rm, 2, 1), At(Rm, 2, 2))),
                 pitch |-> Degrees(Atan2(-At(Rm, 2, 0), Sy(Rm))),
                 yaw   |-> Degrees(Atan2(At(Rm, 1, 0), At(Rm, 0, 0)))]
    /\ branch' = "regular"
    /\ epc' = "returned"
    /\ UNCHANGED Rm
    /\ UNCHANGED <<calibVars, poseVars, captureVars>>

\* Lines 69-72, the `else` branch, and line 74.
EulerSingular ==
    /\ epc = "input"
    /\ Singular(Sy(Rm))
    /\ euler' = [roll  |-> Degrees(Atan2(-At(Rm, 1, 2), At(Rm, 1, 1))),
                 pitch |-> Degrees(Atan2(-At(Rm, 2, 0), Sy(Rm))),
                 yaw   |-> Degrees(Fin(0))]
    /\ branch' = "singular"
    /\ epc' = "returned"
    /\ UNCHANGED Rm
    /\ UNCHANGED <<calibVars, poseVars, captureVars>>

EulerNext ==
    \/ EulerRegular
    \/ EulerSingular

EulerSpec == EulerInit /\ [][EulerNext]_vars

---------------------------------------------------------------------------
(* Properties of rotation_vector_to_euler *)

\* sy < 1e-6 decided on the exact integers, without the square root.
ExactlyBelowEps(M) ==
    /\ Abs(At(M, 0, 0)) < EPS
    /\ Abs(At(M, 1, 0)) < EPS
    /\ At(M, 0, 0) * At(M, 0, 0) + At(M, 1, 0) * At(M, 1, 0) < EPS * EPS

FiniteAngle(a) == a.fin /\ a.v >= -18000 /\ a.v <= 18000

\* Pitch = +90 degrees: R = Ry(90).
GimbalLock == <<<<0, 0, ONE>>, <<0, ONE, 0>>, <<-ONE, 0, 0>>>>

\* C9: every call returns through one branch, the singular one exactly when
\* sqrt(R00^2 + R10^2) < 1e-6; the singular branch returns yaw = 0 with
\* roll = atan2(-R12, R11) and pitch = atan2(-R20, sy), the other branch
\* roll = atan2(R21, R22), pitch = atan2(-R20, sy), yaw = atan2(R10, R00);
\* all three angles are finite; at pitch = +90 degrees the result is
\* roll 0, pitch 90, yaw 0.
C9_EulerBranches ==
    /\ (epc = "input" => branch = "none")
    /\ (epc = "returned" =>
          /\ branch \in {"singular", "regular"}
          /\ (branch = "singular") <=> ExactlyBelowEps(Rm)
          /\ FiniteAngle(euler.roll)
          /\ FiniteAngle(euler.pitch)
          /\ FiniteAngle(euler.yaw)
          /\ euler.pitch = Degrees(Atan2(-At(Rm, 2, 0), Sy(Rm)))
          /\ (branch = "singular" =>
                /\ euler.yaw = Fin(0)
                /\ euler.roll = Degrees(Atan2(-At(Rm, 1, 2), At(Rm, 1, 1))))
          /\ (branch = "regular" =>
                /\ euler.yaw = Degrees(Atan2(At(Rm, 1, 0), At(Rm, 0, 0)))
                /\ euler.roll = Degrees(Atan2(At(Rm, 2, 1), At(Rm, 2, 2))))
          /\ (Rm = GimbalLock =>
                euler = [roll |-> Fin(0), pitch |-> Fin(9000), yaw |-> Fin(0)]))

\* The singular branch taken with R10 not zero, so that atan2(R10, R00) is not 0.
C9_Witness ==
    /\ epc = "returned"
    /\ branch = "singular"
    /\ At(Rm, 1, 0) > 0
    /\ At(Rm, 2, 0) = -ONE
    /\ euler.pitch = Fin(9000)

===========================================================================
